---------------------------- MODULE Spec2Model ----------------------------
(***************************************************************************)
(* Serial-port device simulators of SerialPortPoolService:                 *)
(*   - DummyUUT (tests/DummyUUT/dummy_uut.py): one generic simulator with  *)
(*     a command table, driven by start / stop / add_command and one       *)
(*     _process_commands thread per successful start;                      *)
(*   - MultiPortDummyUUT (SerialPortPoolService/multi_port_dummy_uut.py):  *)
(*     a main handler thread and three PORT{N} handler threads, started by *)
(*     main() -> start() and stopped by stop().                            *)
(* Byte strings and text are TLA+ strings; decode/encode are the identity  *)
(* on every line that is valid UTF-8 and decode raises on the others.      *)
(***************************************************************************)
EXTENDS Integers, Sequences, FiniteSets, TLC

(***************************************************************************)
(* Text helpers: str.strip, str.startswith, str.replace, f-strings.        *)
(***************************************************************************)
CR == "\r"
LF == "\n"
CRLF == "\r\n"

\* A byte that is not valid UTF-8 (0xFF on the wire) is written "~" here.
BadByte == "~"

\* the characters str.strip() removes
IsSpace(c) == c \in {" ", "\t", "\n", "\r", "\f"}

\* str.lstrip(): everything from the first character that is not a space
LStrip(s) ==
    IF \A i \in 1..Len(s) : IsSpace(SubSeq(s, i, i)) THEN ""
    ELSE SubSeq(s, CHOOSE i \in 1..Len(s) :
                       /\ ~IsSpace(SubSeq(s, i, i))
                       /\ \A j \in 1..(i - 1) : IsSpace(SubSeq(s, j, j)),
                Len(s))

\* str.rstrip(): everything up to the last character that is not a space
RStrip(s) ==
    IF \A i \in 1..Len(s) : IsSpace(SubSeq(s, i, i)) THEN ""
    ELSE SubSeq(s, 1, CHOOSE i \in 1..Len(s) :
                          /\ ~IsSpace(SubSeq(s, i, i))
                          /\ \A j \in (i + 1)..Len(s) : IsSpace(SubSeq(s, j, j)))

\* str.strip(): the left-stripped text, stripped on the right
Strip(s) == CHOOSE r \in {RStrip(t) : t \in {LStrip(s)}} : TRUE

StartsWith(s, p) == Len(s) >= Len(p) /\ SubSeq(s, 1, Len(p)) = p

EndsWith(s, p) == Len(s) >= Len(p) /\ SubSeq(s, Len(s) - Len(p) + 1, Len(s)) = p

\* s.replace(c, "") for a one-character c
RECURSIVE RemoveChar(_, _)
RemoveChar(s, c) ==
    IF Len(s) = 0 THEN s
    ELSE IF SubSeq(s, 1, 1) = c THEN RemoveChar(SubSeq(s, 2, Len(s)), c)
    ELSE SubSeq(s, 1, 1) \o RemoveChar(SubSeq(s, 2, Len(s)), c)

Contains(s, c) == \E i \in 1..Len(s) : SubSeq(s, i, i) = c

\* index of the first LF of a buffer, 0 when it holds none
RECURSIVE FirstLF(_, _)
FirstLF(buf, i) ==
    IF i > Len(buf) THEN 0
    ELSE IF SubSeq(buf, i, i) = LF THEN i
    ELSE FirstLF(buf, i + 1)

\* read_until(b'\n') / readline(): the bytes up to and including the first
\* LF, or everything received when the read timeout elapses without one
ReadLine(buf) ==
    IF FirstLF(buf, 1) = 0 THEN buf ELSE SubSeq(buf, 1, FirstLF(buf, 1))

RestAfterLine(buf) ==
    IF FirstLF(buf, 1) = 0 THEN "" ELSE SubSeq(buf, FirstLF(buf, 1) + 1, Len(buf))

\* bytes.decode('utf-8') succeeds
Decodable(bytes) == ~Contains(bytes, BadByte)

\* Optional values: <<>> is None, <<v>> is the value v
None == <<>>
Some(v) == <<v>>


(***************************************************************************)
(* Bounds of the model.                                                    *)
(***************************************************************************)
MaxAdds == 2        \* add_command() calls while the simulator runs
MaxSends == 1       \* lines the orchestrator sends to the generic simulator
MaxStarts == 2      \* start() calls of a caller that starts and stops at will
MaxStops == 2       \* stop() calls of a caller that starts and stops at will
LifeMaxSends == 1   \* lines sent to a simulator started and stopped at will
TableMaxAdds == 2   \* add_command() calls on a table that is only queried

\* main() of dummy_uut.py calls start() once (line 179) and stop() once (line 197)
MainStarts == 1
MainStops == 1

VARIABLES
    \* ---- DummyUUT (dummy_uut.py) ----
    serial_port,        \* self.serial_port: 0 is None, n > 0 the n-th Serial object
    handles,            \* is_open of every Serial object created so far
    running,            \* self.running
    device_state,       \* self.device_state
    command_responses,  \* self.command_responses
    threads,            \* the _process_commands threads started so far
    ctl_pc,             \* where the caller of start/stop/add_command is
    last_op,            \* the caller's last completed call and what it returned
    rx,                 \* bytes received on the port and not yet read
    tx,                 \* the writes made to the port, in order
    probe,              \* the last direct _get_response call: <<command, result>>
    calls,              \* how many start / stop / add_command / send happened
    rd,                 \* the commands the loops decoded and stripped, in order
    fault,              \* an I/O call of a loop raised a transport error
    limits              \* how many of each the environment makes at most

gvars == <<serial_port, handles, running, device_state, command_responses,
           threads, ctl_pc, last_op, rx, tx, probe, calls, rd, fault, limits>>

VARIABLES
    \* ---- MultiPortDummyUUT (multi_port_dummy_uut.py) ----
    ports_arg,          \* len(secondary_ports) as parsed by main()
    main_pc,            \* where the controlling thread is
    exit_code,          \* <<>> while the process runs, <<n>> once it exited with n
    constructed,        \* a MultiPortDummyUUT object exists
    mp_running,         \* self.running
    mp_threads,         \* self.threads, as handler numbers
    serial_connections, \* self.serial_connections: handler numbers, insertion order
    ser,                \* per handler, its Serial object: "none", "open", "closed",
                        \* or "broken": open, but every I/O call on it raises
    h_pc,               \* per handler, where its thread is
    h_cmd,              \* per handler, <<command, response>> read and not yet answered
    mp_rx,              \* per handler, bytes received on its port and not yet read
    mp_log,             \* the exchanges written to the ports, in order
    mp_read,            \* per handler, the commands it decoded and stripped, in order
    stop_it,            \* the dict iterator of stop(): position and expected size
    mcalls,             \* how many stop() calls and sends happened
    mlimits             \* how many of each the environment makes at most

mvars == <<ports_arg, main_pc, exit_code, constructed, mp_running, mp_threads,
           serial_connections, ser, h_pc, h_cmd, mp_rx, mp_log, mp_read, stop_it,
           mcalls, mlimits>>

vars == <<gvars, mvars>>

(***************************************************************************)
(* DummyUUT: the command table.                                            *)
(***************************************************************************)
InitialTable ==
    ("ATZ\r\n" :> "OK\r\n") @@ ("ATZ" :> "OK\r\n") @@
    ("INIT_RS232\r\n" :> "READY\r\n") @@ ("INIT_RS232" :> "READY\r\n") @@
    ("AT+STATUS\r\n" :> "STATUS_OK\r\n") @@ ("AT+STATUS" :> "STATUS_OK\r\n") @@
    ("RUN_TEST_1\r\n" :> "PASS\r\n") @@ ("RUN_TEST_1" :> "PASS\r\n") @@
    ("TEST\r\n" :> "PASS\r\n") @@ ("TEST" :> "PASS\r\n") @@
    ("AT+QUIT\r\n" :> "GOODBYE\r\n") @@ ("AT+QUIT" :> "GOODBYE\r\n") @@
    ("STOP_RS232\r\n" :> "BYE\r\n") @@ ("STOP_RS232" :> "BYE\r\n") @@
    ("EXIT\r\n" :> "BYE\r\n") @@ ("EXIT" :> "BYE\r\n") @@
    ("AT+SHUTDOWN\r\n" :> "SHUTDOWN_OK\r\n") @@ ("AT+SHUTDOWN" :> "SHUTDOWN_OK\r\n")

error_response == "ERROR: Unknown command\r\n"

\* RuleKey whose third attempt removes the LF characters only
RuleKeyKeepsCr(i, command) ==
    CASE i = 1 -> command
      [] i = 2 -> command \o "\r\n"
      [] i = 3 -> RemoveChar(command, "\n")

\* RuleKey with the first two attempts in the other order
RuleKeyCrlfFirst(i, command) ==
    CASE i = 1 -> command \o "\r\n"
      [] i = 2 -> command
      [] i = 3 -> RemoveChar(RemoveChar(command, "\r"), "\n")

\* the key the i-th attempt of _get_response looks up
RuleKey(i, command) ==
    CASE i = 1 -> command
      [] i = 2 -> command \o "\r\n"
      [] i = 3 -> RemoveChar(RemoveChar(command, "\r"), "\n")

\* _get_response(command) on the table as it is
get_response(table, command) ==
    IF RuleKey(1, command) \in DOMAIN table THEN Some(table[RuleKey(1, command)])
    ELSE IF RuleKey(2, command) \in DOMAIN table THEN Some(table[RuleKey(2, command)])
    ELSE IF RuleKey(3, command) \in DOMAIN table THEN Some(table[RuleKey(3, command)])
    ELSE None

\* self.command_responses[command] = response
TableWith(table, command, response) ==
    [k \in DOMAIN table \cup {command} |->
        IF k = command THEN response ELSE table[k]]

\* `if response:` -- None and the empty string are both falsy
Truthy(response) == response # None /\ response # Some("")

(***************************************************************************)
(* DummyUUT: what its environment does.  The orchestrator sends lines to   *)
(* the port; a caller uses start(), stop() and add_command().              *)
(***************************************************************************)
\* lines the orchestrator sends: a known command, an unknown command that
\* arrives without terminator (the read times out), an empty line, a
\* command with a CR inside it, and a line that is not UTF-8
Lines == {"ATZ\r\n", "FOO", "\r\n", "AT\rZ\n", "~\n"}

\* add_command arguments
AddKeys == {"FOO", "FOO\r\n", "ATZ"}
AddValues == {"BAR\r\n", "BAZ"}

NewThread == [pc |-> "check", command |-> "", rule |-> 0, response |-> None, seen |-> {}]

InLookup(th) == th.pc = "lookup"

PortOpen == serial_port # 0 /\ handles[serial_port]

GInit ==
    /\ serial_port = 0
    /\ handles = <<>>
    /\ running = FALSE
    /\ device_state = "OFFLINE"
    /\ command_responses = InitialTable
    /\ threads = <<>>
    /\ ctl_pc = "idle"
    /\ last_op = [op |-> "init", ret |-> TRUE]
    /\ rx = ""
    /\ tx = <<>>
    /\ calls = [start |-> 0, stop |-> 0, add |-> 0, send |-> 0]
    /\ probe = <<>>
    /\ rd = <<>>
    /\ fault = FALSE

\* a start() that raised the flags before opening the port
StartFailsAfterFlags ==
    /\ ctl_pc = "idle"
    /\ calls.start < limits.start
    /\ calls' = [calls EXCEPT !.start = @ + 1]
    /\ running' = TRUE
    /\ device_state' = "ONLINE"
    /\ last_op' = [op |-> "start", ret |-> FALSE]
    /\ UNCHANGED <<serial_port, handles,
                   command_responses, threads, ctl_pc, rx, tx, probe, rd, fault, limits, mvars>>

\* start(), serial.Serial(...) raising SerialException: return False
StartFails ==
    /\ ctl_pc = "idle"
    /\ calls.start < limits.start
    /\ calls' = [calls EXCEPT !.start = @ + 1]
    /\ last_op' = [op |-> "start", ret |-> FALSE]
    /\ UNCHANGED <<serial_port, handles, running, device_state,
                   command_responses, threads, ctl_pc, rx, tx, probe, rd, fault, limits, mvars>>

\* start(), the port opens: a new Serial object, the flags, a new thread.
\* The assignment of line 55 drops the reference to the Serial object of an
\* earlier start(); whether that object is finalized, which closes it,
\* depends on the interpreter's garbage collection
StartOk ==
    /\ ctl_pc = "idle"
    /\ calls.start < limits.start
    /\ calls' = [calls EXCEPT !.start = @ + 1]
    /\ \E finalized \in BOOLEAN :
           handles' = Append(IF finalized /\ serial_port # 0
                             THEN [handles EXCEPT ![serial_port] = FALSE]
                             ELSE handles, TRUE)
    /\ serial_port' = Len(handles) + 1
    /\ running' = TRUE
    /\ device_state' = "ONLINE"
    /\ threads' = Append(threads, NewThread)
    /\ last_op' = [op |-> "start", ret |-> TRUE]
    /\ UNCHANGED <<command_responses, ctl_pc, rx, tx, probe, rd, fault, limits, mvars>>

\* stop(), lines 84-85
StopFlags ==
    /\ ctl_pc = "idle"
    /\ calls.stop < limits.stop
    /\ calls' = [calls EXCEPT !.stop = @ + 1]
    /\ running' = FALSE
    /\ device_state' = "OFFLINE"
    /\ ctl_pc' = "stop_close"
    /\ UNCHANGED <<serial_port, handles, command_responses, threads, last_op, rx, tx, probe, rd, fault, limits, mvars>>

\* StopClose that leaves the port as it is
StopCloseLeavesOpen ==
    /\ ctl_pc = "stop_close"
    /\ ctl_pc' = "idle"
    /\ last_op' = [op |-> "stop", ret |-> TRUE]
    /\ UNCHANGED <<serial_port, handles, running, device_state, command_responses,
                   threads, rx, tx, calls, probe, rd, fault, limits, mvars>>

\* stop(), lines 87-89: close the port if there is one and it is open
StopClose ==
    /\ ctl_pc = "stop_close"
    /\ handles' = IF PortOpen THEN [handles EXCEPT ![serial_port] = FALSE] ELSE handles
    /\ ctl_pc' = "idle"
    /\ last_op' = [op |-> "stop", ret |-> TRUE]
    /\ UNCHANGED <<serial_port, running, device_state, command_responses,
                   threads, rx, tx, calls, probe, rd, fault, limits, mvars>>

\* add_command(command, response); a lookup in progress may now see the
\* new table, which `seen` records for every thread inside _get_response
add_command(command, response) ==
    /\ ctl_pc = "idle"
    /\ calls.add < limits.add
    /\ calls' = [calls EXCEPT !.add = @ + 1]
    /\ command_responses' = TableWith(command_responses, command, response)
    /\ threads' = [t \in DOMAIN threads |->
                    IF InLookup(threads[t])
                    THEN [threads[t] EXCEPT !.seen = @ \cup
                            {get_response(command_responses', threads[t].command)}]
                    ELSE threads[t]]
    /\ last_op' = [op |-> "add_command", ret |-> TRUE,
                    command |-> command, response |-> response]
    /\ UNCHANGED <<serial_port, handles, running, device_state, ctl_pc, rx, tx, probe, rd, fault, limits, mvars>>

\* the orchestrator sends one line to the open port
Send(line) ==
    /\ PortOpen
    /\ calls.send < limits.send
    /\ calls' = [calls EXCEPT !.send = @ + 1]
    /\ rx' = rx \o line
    /\ UNCHANGED <<serial_port, handles, running, device_state, command_responses,
                   threads, ctl_pc, last_op, tx, probe, rd, fault, limits, mvars>>

(***************************************************************************)
(* DummyUUT._process_commands, one step per access to shared state.        *)
(* An exception inside the try is logged, followed by sleep(0.1), and the  *)
(* loop goes back to its `while self.running` test (lines 120-122).        *)
(***************************************************************************)
At(t, pc) == t \in DOMAIN threads /\ threads[t].pc = pc

\* the locals command and response are dead once the loop is back at its
\* `while` test (or has left it): they are cleared there
Goto(t, pc) ==
    IF pc \in {"check", "done"}
    THEN [threads EXCEPT ![t] = [NewThread EXCEPT !.pc = pc]]
    ELSE [threads EXCEPT ![t].pc = pc]

\* line 93: while self.running
Check(t) ==
    /\ At(t, "check")
    /\ threads' = Goto(t, IF running THEN "poll" ELSE "done")
    /\ UNCHANGED <<serial_port, handles, running, device_state, command_responses,
                   ctl_pc, last_op, rx, tx, calls, probe, rd, fault, limits, mvars>>

\* line 95: self.serial_port.in_waiting > 0; it raises on a closed port;
\* with nothing waiting the loop sleeps 10 ms (line 118) and tests again
Poll(t) ==
    /\ At(t, "poll")
    /\ threads' = Goto(t, IF PortOpen /\ Len(rx) > 0 THEN "read" ELSE "check")
    /\ UNCHANGED <<serial_port, handles, running, device_state, command_responses,
                   ctl_pc, last_op, rx, tx, calls, probe, rd, fault, limits, mvars>>

\* lines 97-100: read_until(b'\n').decode('utf-8'), strip(), `if command:`
Read(t) ==
    /\ At(t, "read")
    /\ IF ~PortOpen
       THEN \* read_until raises: except branch
            /\ threads' = Goto(t, "check")
            /\ UNCHANGED <<rx, rd>>
       ELSE /\ rx' = RestAfterLine(rx)
            /\ IF ~Decodable(ReadLine(rx))
               THEN \* decode raises UnicodeDecodeError: except branch
                    /\ threads' = Goto(t, "check")
                    /\ rd' = rd
               ELSE /\ rd' = Append(rd, Strip(ReadLine(rx)))
                    /\ IF Strip(ReadLine(rx)) = ""
                       THEN \* empty command: nothing is written
                            threads' = Goto(t, "check")
                       ELSE threads' = [threads EXCEPT ![t] =
                                [pc |-> "lookup", command |-> Strip(ReadLine(rx)),
                                 rule |-> 1, response |-> None,
                                 seen |-> {get_response(command_responses,
                                                        Strip(ReadLine(rx)))}]]
    /\ UNCHANGED <<serial_port, handles, running, device_state, command_responses,
                   ctl_pc, last_op, tx, calls, probe, fault, limits, mvars>>

\* lines 127-140: one attempt of _get_response; each `in` test and the
\* read that follows it see the table as it is at that moment
Lookup(t) ==
    /\ At(t, "lookup")
    /\ LET th == threads[t]
           key == RuleKey(th.rule, th.command)
       IN  threads' = [threads EXCEPT ![t] =
               IF key \in DOMAIN command_responses
               THEN [th EXCEPT !.pc = "delay", !.response = Some(command_responses[key])]
               ELSE IF th.rule < 3
               THEN [th EXCEPT !.rule = @ + 1]
               ELSE [th EXCEPT !.pc = "delay", !.response = None]]
    /\ UNCHANGED <<serial_port, handles, running, device_state, command_responses,
                   ctl_pc, last_op, rx, tx, calls, probe, rd, fault, limits, mvars>>

\* line 107: time.sleep(0.1)
Delay(t) ==
    /\ At(t, "delay")
    /\ threads' = Goto(t, "write")
    /\ UNCHANGED <<serial_port, handles, running, device_state, command_responses,
                   ctl_pc, last_op, rx, tx, calls, probe, rd, fault, limits, mvars>>

\* the bytes lines 110-116 write for a lookup result
Reply(response) == IF Truthy(response) THEN response[1] ELSE error_response

\* a write that still reaches the peer after the port was closed
WriteAfterClose(t) ==
    /\ At(t, "write")
    /\ tx' = Append(tx, Reply(threads[t].response))
    /\ threads' = Goto(t, "check")
    /\ UNCHANGED <<serial_port, handles, running, device_state, command_responses,
                   ctl_pc, last_op, rx, calls, probe, rd, fault, limits, mvars>>

\* lines 110-116: write the response, or the fallback; write raises on a
\* closed port
Write(t) ==
    /\ At(t, "write")
    /\ tx' = IF PortOpen THEN Append(tx, Reply(threads[t].response)) ELSE tx
    /\ threads' = Goto(t, "check")
    /\ UNCHANGED <<serial_port, handles, running, device_state, command_responses,
                   ctl_pc, last_op, rx, calls, probe, rd, fault, limits, mvars>>

\* lines 95, 97, 111/115 raising a transport error (the device was
\* unplugged, the driver failed) on the open port: the except branch of
\* lines 120-122 logs it, sleeps and goes back to the while test
IOFault(t) ==
    /\ t \in DOMAIN threads
    /\ threads[t].pc \in {"poll", "read", "write"}
    /\ PortOpen
    /\ ~fault
    /\ fault' = TRUE
    /\ threads' = Goto(t, "check")
    /\ UNCHANGED <<serial_port, handles, running, device_state, command_responses,
                   ctl_pc, last_op, rx, tx, calls, probe, rd, limits, mvars>>

ThreadStep(t) ==
    \/ Check(t)
    \/ Poll(t)
    \/ Read(t)
    \/ Lookup(t)
    \/ Delay(t)
    \/ Write(t)

\* a caller evaluates _get_response(command) itself
Query(command) ==
    /\ ctl_pc = "idle"
    /\ probe' = <<command, get_response(command_responses, command)>>
    /\ UNCHANGED <<serial_port, handles, running, device_state, command_responses,
                   threads, ctl_pc, last_op, rx, tx, calls, rd, fault, limits, mvars>>

\* commands a caller looks up directly
Probes == {"ATZ", "ATZ\r\n", "A\rTZ", "FOO", "FOO\r\n", "FOO\r\n\r\n", "\rFOO\n", "NOPE"}

(***************************************************************************)
(* MultiPortDummyUUT (multi_port_dummy_uut.py).  Handler 0 is the main UUT *)
(* handler, handler N >= 1 the PORT{N} handler of the N-th secondary port. *)
(***************************************************************************)
MaxPortArgs == 4        \* entries of the --ports list that main() may be given
TrafficMaxSends == 1    \* lines the orchestrator sends to the started group
IndepMaxSends == 2      \* slow commands the orchestrator sends to the started group
StopMaxSends == 1       \* lines sent to a simulator that is then stopped
GroupMaxStops == 2      \* stop() calls on the group
OpenFailMaxSends == 1   \* lines sent to a group some of whose ports are missing
FaultMaxSends == 1      \* lines sent to a simulator whose transport may fail
NoiseMaxSends == 2      \* lines, some not UTF-8, sent to the generic simulator

\* main(), line 218: exactly three secondary ports
InterruptStops == 1
NumSecondary == 3


Handlers == 0..MaxPortArgs

\* str(n) of an f-string, for n >= 0
RECURSIVE IntStr(_)
IntStr(n) ==
    IF n < 10 THEN SubSeq("0123456789", n + 1, n + 1)
    ELSE IntStr(n \div 10) \o SubSeq("0123456789", (n % 10) + 1, (n % 10) + 1)

\* MainResponse with the prefix test of line 63 on "MAIN" alone
MainResponseLoosePrefix(command) ==
    IF command = "MAIN_POWER_ON" THEN "MAIN_POWER:ON\r\n"
    ELSE IF command = "MAIN_INIT" THEN "MAIN_INIT:OK\r\n"
    ELSE IF command = "MAIN_TEST_STATUS" THEN "MAIN_STATUS:READY\r\n"
    ELSE IF command = "MAIN_SELF_TEST" THEN "MAIN_SELF_TEST:PASS\r\n"
    ELSE IF command = "MAIN_SHUTDOWN" THEN "MAIN_SHUTDOWN:OK\r\n"
    ELSE IF StartsWith(command, "MAIN") THEN "MAIN_UNKNOWN_CMD:" \o command \o "\r\n"
    ELSE "MAIN_ERROR:INVALID_COMMAND\r\n"

\* lines 52-66: the response of the main UUT to a command
MainResponse(command) ==
    IF command = "MAIN_POWER_ON" THEN "MAIN_POWER:ON\r\n"
    ELSE IF command = "MAIN_INIT" THEN "MAIN_INIT:OK\r\n"
    ELSE IF command = "MAIN_TEST_STATUS" THEN "MAIN_STATUS:READY\r\n"
    ELSE IF command = "MAIN_SELF_TEST" THEN "MAIN_SELF_TEST:PASS\r\n"
    ELSE IF command = "MAIN_SHUTDOWN" THEN "MAIN_SHUTDOWN:OK\r\n"
    ELSE IF StartsWith(command, "MAIN_") THEN "MAIN_UNKNOWN_CMD:" \o command \o "\r\n"
    ELSE "MAIN_ERROR:INVALID_COMMAND\r\n"

\* line 59: time.sleep(0.5) before the self-test response
MainSlow(command) == command = "MAIN_SELF_TEST"

\* PortResponse with the prefix test of line 113 ignoring the port number
PortResponseAnyIndex(command, port_num) ==
    LET P == "PORT" \o IntStr(port_num) IN
    IF command = P \o "_ENABLE" THEN P \o ":ENABLED\r\n"
    ELSE IF command = P \o "_TEST" THEN P \o ":TEST_OK\r\n"
    ELSE IF command = P \o "_DATA_CHECK" THEN P \o ":DATA_VALID\r\n"
    ELSE IF command = P \o "_DISABLE" THEN P \o ":DISABLED\r\n"
    ELSE IF StartsWith(command, "PORT") THEN P \o "_UNKNOWN_CMD:" \o command \o "\r\n"
    ELSE P \o "_ERROR:INVALID_COMMAND\r\n"

\* lines 104-116: the response of PORT{port_num} to a command
PortResponse(command, port_num) ==
    LET P == "PORT" \o IntStr(port_num) IN
    IF command = P \o "_ENABLE" THEN P \o ":ENABLED\r\n"
    ELSE IF command = P \o "_TEST" THEN P \o ":TEST_OK\r\n"
    ELSE IF command = P \o "_DATA_CHECK" THEN P \o ":DATA_VALID\r\n"
    ELSE IF command = P \o "_DISABLE" THEN P \o ":DISABLED\r\n"
    ELSE IF StartsWith(command, P \o "_") THEN P \o "_UNKNOWN_CMD:" \o command \o "\r\n"
    ELSE P \o "_ERROR:INVALID_COMMAND\r\n"

\* line 107: time.sleep(0.3) before the test response
PortSlow(command, port_num) == command = "PORT" \o IntStr(port_num) \o "_TEST"

\* the handler that start() creates for position h: create_main_uut_handler
\* for the main port, create_port_handler(port, i) for enumerate(..., 1)
Response(h, command) ==
    IF h = 0 THEN MainResponse(command) ELSE PortResponse(command, h)

Slow(h, command) ==
    IF h = 0 THEN MainSlow(command) ELSE PortSlow(command, h)

\* ValidPortCount that accepts more than three ports
ValidPortCountAtLeast(n) == n >= NumSecondary

\* main(), line 218: the check on len(secondary_ports)
ValidPortCount(n) == n = NumSecondary

MInit ==
    /\ ports_arg \in 1..MaxPortArgs
    /\ main_pc = "main"
    /\ exit_code = <<>>
    /\ constructed = FALSE
    /\ mp_running = FALSE
    /\ mp_threads = <<>>
    /\ serial_connections = <<>>
    /\ ser = [h \in Handlers |-> "none"]
    /\ h_pc = [h \in Handlers |-> "unstarted"]
    /\ h_cmd = [h \in Handlers |-> <<>>]
    /\ mp_rx = [h \in Handlers |-> ""]
    /\ mp_log = <<>>
    /\ mp_read = [h \in Handlers |-> <<>>]
    /\ stop_it = [pos |-> 0, used |-> 0]
    /\ mcalls = [stop |-> 0, send |-> 0]

\* main(), lines 215-224: a wrong port count ends the process with
\* sys.exit(1); otherwise the MultiPortDummyUUT object is constructed
MainValidate ==
    /\ main_pc = "main"
    /\ IF ValidPortCount(ports_arg)
       THEN /\ constructed' = TRUE
            /\ main_pc' = "constructed"
            /\ exit_code' = exit_code
       ELSE /\ constructed' = constructed
            /\ main_pc' = "exit1"
            /\ exit_code' = <<1>>
    /\ UNCHANGED <<ports_arg, mp_running, mp_threads, serial_connections, ser, h_pc,
                   h_cmd, mp_rx, mp_log, stop_it, mcalls, mp_read, mlimits, gvars>>

\* start(), line 148: self.running = True
StartRunning ==
    /\ main_pc = "constructed"
    /\ mp_running' = TRUE
    /\ main_pc' = "spawn"
    /\ UNCHANGED <<ports_arg, exit_code, constructed, mp_threads, serial_connections,
                   ser, h_pc, h_cmd, mp_rx, mp_log, stop_it, mcalls, mp_read, mlimits, gvars>>

\* start(), lines 151-167: create and start the next handler thread, the
\* main one first, then one per secondary port; then the wait loop
StartThread ==
    /\ main_pc = "spawn"
    /\ IF Len(mp_threads) <= ports_arg
       THEN /\ h_pc' = [h_pc EXCEPT ![Len(mp_threads)] = "open"]
            /\ mp_threads' = Append(mp_threads, Len(mp_threads))
            /\ main_pc' = main_pc
       ELSE /\ main_pc' = "wait"
            /\ UNCHANGED <<h_pc, mp_threads>>
    /\ UNCHANGED <<ports_arg, exit_code, constructed, mp_running, serial_connections,
                   ser, h_cmd, mp_rx, mp_log, stop_it, mcalls, mp_read, mlimits, gvars>>

\* handler, lines 41-42 / 93-94: the port opens and is registered
HOpenOk(h) ==
    /\ h_pc[h] = "open"
    /\ ser' = [ser EXCEPT ![h] = "open"]
    /\ serial_connections' = Append(serial_connections, h)
    /\ h_pc' = [h_pc EXCEPT ![h] = "check"]
    /\ UNCHANGED <<ports_arg, main_pc, exit_code, constructed, mp_running, mp_threads,
                   h_cmd, mp_rx, mp_log, stop_it, mcalls, mp_read, mlimits, gvars>>

\* HOpenFails that takes the whole group down with the failing member
HOpenFailsStopsGroup(h) ==
    /\ h_pc[h] = "open"
    /\ h_pc' = [h_pc EXCEPT ![h] = "finally"]
    /\ mp_running' = FALSE
    /\ UNCHANGED <<ports_arg, main_pc, exit_code, constructed, mp_threads,
                   serial_connections, ser, h_cmd, mp_rx, mp_log, stop_it, mcalls,
                   mp_read, mlimits, gvars>>

\* handler, lines 79-80 / 129-130: serial.Serial raises
HOpenFails(h) ==
    /\ h_pc[h] = "open"
    /\ h_pc' = [h_pc EXCEPT ![h] = "finally"]
    /\ UNCHANGED <<ports_arg, main_pc, exit_code, constructed, mp_running, mp_threads,
                   serial_connections, ser, h_cmd, mp_rx, mp_log, stop_it, mcalls,
                   mp_read, mlimits, gvars>>

\* handler, line 45 / 97: while self.running
HCheck(h) ==
    /\ h_pc[h] = "check"
    /\ h_pc' = [h_pc EXCEPT ![h] = IF mp_running THEN "poll" ELSE "finally"]
    /\ UNCHANGED <<ports_arg, main_pc, exit_code, constructed, mp_running, mp_threads,
                   serial_connections, ser, h_cmd, mp_rx, mp_log, stop_it, mcalls,
                   mp_read, mlimits, gvars>>

\* a handler that reads under a lock which a handler holds during its
\* simulated processing time
HPollUnderLock(h) ==
    /\ h_pc[h] = "poll"
    /\ \A g \in Handlers \ {h} : h_pc[g] # "delay"
    /\ IF ser[h] # "open"
       THEN /\ h_pc' = [h_pc EXCEPT ![h] = "finally"]
            /\ UNCHANGED <<h_cmd, mp_rx, mp_read>>
       ELSE IF Len(mp_rx[h]) = 0
       THEN /\ h_pc' = [h_pc EXCEPT ![h] = "check"]
            /\ UNCHANGED <<h_cmd, mp_rx, mp_read>>
       ELSE \E line \in {ReadLine(mp_rx[h])} :
            /\ mp_rx' = [mp_rx EXCEPT ![h] = RestAfterLine(@)]
            /\ IF ~Decodable(line)
               THEN /\ h_pc' = [h_pc EXCEPT ![h] = "finally"]
                    /\ UNCHANGED <<h_cmd, mp_read>>
               ELSE \E command \in {Strip(line)} :
                    /\ h_cmd' = [h_cmd EXCEPT ![h] = <<command, Response(h, command)>>]
                    /\ mp_read' = [mp_read EXCEPT ![h] = Append(@, command)]
                    /\ h_pc' = [h_pc EXCEPT ![h] =
                                  IF Slow(h, command) THEN "delay" ELSE "write"]
    /\ UNCHANGED <<ports_arg, main_pc, exit_code, constructed, mp_running, mp_threads,
                   serial_connections, ser, mp_log, stop_it, mcalls, mlimits, gvars>>

\* handler, lines 47-66 / 99-116: in_waiting and readline raise on a closed
\* port and decode raises on bad bytes (both: log and break); with a line
\* read, the response is chosen; the slow commands sleep first
HPoll(h) ==
    /\ h_pc[h] = "poll"
    /\ IF ser[h] # "open"
       THEN /\ h_pc' = [h_pc EXCEPT ![h] = "finally"]
            /\ UNCHANGED <<h_cmd, mp_rx, mp_read>>
       ELSE IF Len(mp_rx[h]) = 0
       THEN /\ h_pc' = [h_pc EXCEPT ![h] = "check"]
            /\ UNCHANGED <<h_cmd, mp_rx, mp_read>>
       ELSE \E line \in {ReadLine(mp_rx[h])} :
            /\ mp_rx' = [mp_rx EXCEPT ![h] = RestAfterLine(@)]
            /\ IF ~Decodable(line)
               THEN /\ h_pc' = [h_pc EXCEPT ![h] = "finally"]
                    /\ UNCHANGED <<h_cmd, mp_read>>
               ELSE \E command \in {Strip(line)} :
                    /\ h_cmd' = [h_cmd EXCEPT ![h] = <<command, Response(h, command)>>]
                    /\ mp_read' = [mp_read EXCEPT ![h] = Append(@, command)]
                    /\ h_pc' = [h_pc EXCEPT ![h] =
                                  IF Slow(h, command) THEN "delay" ELSE "write"]
    /\ UNCHANGED <<ports_arg, main_pc, exit_code, constructed, mp_running, mp_threads,
                   serial_connections, ser, mp_log, stop_it, mcalls, mlimits, gvars>>

\* handler, line 59 / 107: the simulated processing time
HDelay(h) ==
    /\ h_pc[h] = "delay"
    /\ h_pc' = [h_pc EXCEPT ![h] = "write"]
    /\ UNCHANGED <<ports_arg, main_pc, exit_code, constructed, mp_running, mp_threads,
                   serial_connections, ser, h_cmd, mp_rx, mp_log, stop_it, mcalls,
                   mp_read, mlimits, gvars>>

\* handler, lines 68-71 / 118-121: ser.write(response); on a closed port it
\* raises (log and break)
HWrite(h) ==
    /\ h_pc[h] = "write"
    /\ IF ser[h] = "open"
       THEN /\ mp_log' = Append(mp_log, [port |-> h, command |-> h_cmd[h][1],
                                         response |-> h_cmd[h][2]])
            /\ h_pc' = [h_pc EXCEPT ![h] = "check"]
       ELSE /\ mp_log' = mp_log
            /\ h_pc' = [h_pc EXCEPT ![h] = "finally"]
    /\ h_cmd' = [h_cmd EXCEPT ![h] = <<>>]
    /\ UNCHANGED <<ports_arg, main_pc, exit_code, constructed, mp_running, mp_threads,
                   serial_connections, ser, mp_rx, stop_it, mcalls, mp_read, mlimits, gvars>>

\* the device behind handler h's open port fails: from now on in_waiting,
\* readline and write raise on it
HFault(h) ==
    /\ ser[h] = "open"
    /\ ser' = [ser EXCEPT ![h] = "broken"]
    /\ UNCHANGED <<ports_arg, main_pc, exit_code, constructed, mp_running, mp_threads,
                   serial_connections, h_pc, h_cmd, mp_rx, mp_log, stop_it, mcalls,
                   mp_read, mlimits, gvars>>

InConnections(h) == \E i \in DOMAIN serial_connections : serial_connections[i] = h

\* handler, lines 81-84 / 131-134: close the port if it was registered
HFinally(h) ==
    /\ h_pc[h] = "finally"
    /\ ser' = IF InConnections(h) THEN [ser EXCEPT ![h] = "closed"] ELSE ser
    /\ h_pc' = [h_pc EXCEPT ![h] = "done"]
    /\ UNCHANGED <<ports_arg, main_pc, exit_code, constructed, mp_running, mp_threads,
                   serial_connections, h_cmd, mp_rx, mp_log, stop_it, mcalls, mp_read, mlimits, gvars>>

HandlerStep(h) ==
    \/ HOpenOk(h)
    \/ HOpenFails(h)
    \/ HCheck(h)
    \/ HPoll(h)
    \/ HDelay(h)
    \/ HWrite(h)
    \/ HFinally(h)

\* stop() is entered from the wait loop of start() on KeyboardInterrupt
\* (lines 179-181), or called on the object before start() or after it
StopCallable == main_pc \in {"wait", "constructed", "returned"}

\* stop(), lines 186-189: self.running = False, and the for statement takes
\* an iterator of serial_connections.items()
MStopFlag ==
    /\ StopCallable
    /\ mcalls.stop < mlimits.stop
    /\ mcalls' = [mcalls EXCEPT !.stop = @ + 1]
    /\ mp_running' = FALSE
    /\ stop_it' = [pos |-> 0, used |-> Len(serial_connections)]
    /\ main_pc' = "stop_iter"
    /\ UNCHANGED <<ports_arg, exit_code, constructed, mp_threads, serial_connections,
                   ser, h_pc, h_cmd, mp_rx, mp_log, mp_read, mlimits, gvars>>

\* stop(), lines 189-194: one step of the for loop.  The iterator raises
\* RuntimeError when the dict changed size since the loop began (the for
\* statement is outside the try); else it yields the next port, which is
\* closed, or ends the loop
MStopIter ==
    /\ main_pc = "stop_iter"
    /\ IF Len(serial_connections) # stop_it.used
       THEN /\ main_pc' = "raised"
            /\ UNCHANGED <<stop_it, ser>>
       ELSE IF stop_it.pos < Len(serial_connections)
       THEN /\ ser' = [ser EXCEPT ![serial_connections[stop_it.pos + 1]] = "closed"]
            /\ stop_it' = [stop_it EXCEPT !.pos = @ + 1]
            /\ main_pc' = main_pc
       ELSE /\ main_pc' = "stop_join"
            /\ UNCHANGED <<stop_it, ser>>
    /\ UNCHANGED <<ports_arg, exit_code, constructed, mp_running, mp_threads,
                   serial_connections, h_pc, h_cmd, mp_rx, mp_log, mcalls, mp_read, mlimits, gvars>>

\* stop(), lines 197-200: join every thread for at most one second each
MStopJoin ==
    /\ main_pc = "stop_join"
    /\ main_pc' = "returned"
    /\ UNCHANGED <<ports_arg, exit_code, constructed, mp_running, mp_threads,
                   serial_connections, ser, h_pc, h_cmd, mp_rx, mp_log, stop_it,
                   mcalls, mp_read, mlimits, gvars>>

\* the orchestrator sends one line to an open port of the group
MSend(h, line) ==
    /\ ser[h] = "open"
    /\ mcalls.send < mlimits.send
    /\ mcalls' = [mcalls EXCEPT !.send = @ + 1]
    /\ mp_rx' = [mp_rx EXCEPT ![h] = @ \o line]
    /\ UNCHANGED <<ports_arg, main_pc, exit_code, constructed, mp_running, mp_threads,
                   serial_connections, ser, h_pc, h_cmd, mp_log, stop_it, mp_read, mlimits, gvars>>

\* the orchestrator sends once the group is up: start() has printed its
\* "Ready for commands" banner (line 170) and every port is open
GroupReady ==
    /\ main_pc = "wait"
    /\ \A h \in 0..ports_arg : ser[h] = "open"

MSendReady(h, line) == GroupReady /\ MSend(h, line)

\* lines sent to the started group: a slow command of the main UUT, one
\* of a secondary port, and an empty line
TrafficLines == {"MAIN_SELF_TEST\r\n", "PORT2_TEST\r\n", "\r\n"}

\* lines whose response is computed for every handler: every command of
\* every vocabulary, unknown commands with and without a role prefix, near
\* misses of the prefixes, other case, surrounding blanks, no terminator,
\* an empty line
MainWords == {"MAIN_POWER_ON", "MAIN_INIT", "MAIN_TEST_STATUS", "MAIN_SELF_TEST",
              "MAIN_SHUTDOWN", "MAIN_FOO", "MAIN_", "MAIN", "main_init", "garbage"}

PortWords == {"PORT" \o IntStr(n) \o w :
                n \in 1..NumSecondary,
                w \in {"_ENABLE", "_TEST", "_DATA_CHECK", "_DISABLE", "_FOO"}}
             \cup {"PORT1", "PORT10_ENABLE", "PORT_ENABLE"}

DispatchLines == {w \o "\r\n" : w \in MainWords \cup PortWords}
                 \cup {"\r\n", "  MAIN_INIT \r\n", "PORT2_TEST", "\tPORT3_ENABLE\n"}

\* the group while only the generic simulator is exercised
MIdle ==
    /\ ports_arg = NumSecondary
    /\ MInit
    /\ mlimits = [stop |-> 0, send |-> 0]

\* the multi-port program is not launched at all
MAbsent ==
    /\ ports_arg = NumSecondary
    /\ main_pc = "absent"
    /\ exit_code = <<>>
    /\ constructed = FALSE
    /\ mp_running = FALSE
    /\ mp_threads = <<>>
    /\ serial_connections = <<>>
    /\ ser = [h \in Handlers |-> "none"]
    /\ h_pc = [h \in Handlers |-> "unstarted"]
    /\ h_cmd = [h \in Handlers |-> <<>>]
    /\ mp_rx = [h \in Handlers |-> ""]
    /\ mp_log = <<>>
    /\ mp_read = [h \in Handlers |-> <<>>]
    /\ stop_it = [pos |-> 0, used |-> 0]
    /\ mcalls = [stop |-> 0, send |-> 0]
    /\ mlimits = [stop |-> 0, send |-> 0]

\* the generic simulator while only the group is exercised
GIdle ==
    /\ GInit
    /\ limits = [start |-> 0, stop |-> 0, add |-> 0, send |-> 0]

GroupInit ==
    /\ GIdle
    /\ MInit
    /\ mlimits = [stop |-> GroupMaxStops, send |-> 0]

GroupNext ==
    \/ MainValidate
    \/ StartRunning
    \/ StartThread
    \/ \E h \in Handlers : HOpenOk(h)
    \/ \E h \in Handlers : HOpenFails(h)
    \/ \E h \in Handlers : HCheck(h)
    \/ \E h \in Handlers : HPoll(h)
    \/ \E h \in Handlers : HFinally(h)
    \/ MStopFlag
    \/ MStopIter
    \/ MStopJoin

(***************************************************************************)
(* DummyUUT under three environments.                                      *)
(***************************************************************************)
\* as main() of dummy_uut.py drives it, with add_command calls on the side
MainInit ==
    /\ GInit
    /\ MIdle
    /\ limits = [start |-> MainStarts, stop |-> MainStops,
                 add |-> MaxAdds, send |-> MaxSends]

MainNext ==
    \/ StartFails
    \/ StartOk
    \/ StopFlags
    \/ StopClose
    \/ \E k \in AddKeys, v \in AddValues : add_command(k, v)
    \/ \E line \in Lines : Send(line)
    \/ \E t \in DOMAIN threads : ThreadStep(t)

\* the group started by main() with all its ports present, and an
\* orchestrator that sends to it; no interrupt arrives
TrafficInit ==
    /\ GIdle
    /\ MInit
    /\ mlimits = [stop |-> 0, send |-> TrafficMaxSends]

TrafficNext ==
    \/ MainValidate
    \/ StartRunning
    \/ StartThread
    \/ \E h \in Handlers : HOpenOk(h)
    \/ \E h \in Handlers : HCheck(h)
    \/ \E h \in Handlers : HPoll(h)
    \/ \E h \in Handlers : HDelay(h)
    \/ \E h \in Handlers : HWrite(h)
    \/ \E h \in Handlers, line \in TrafficLines : MSendReady(h, line)

\* the orchestrator sends to a port that is open once start() has printed
\* its banner, whether or not the other ports could be opened
MSendUp(h, line) == main_pc = "wait" /\ MSend(h, line)

\* the group started by main() on a machine where any port may be missing
\* or busy, and an orchestrator that sends to the ports that are there
OpenFailInit ==
    /\ GIdle
    /\ MInit
    /\ ports_arg = NumSecondary
    /\ mlimits = [stop |-> 0, send |-> OpenFailMaxSends]

OpenFailNext ==
    \/ MainValidate
    \/ StartRunning
    \/ StartThread
    \/ \E h \in Handlers : HOpenOk(h)
    \/ \E h \in Handlers : HOpenFails(h)
    \/ \E h \in Handlers : HCheck(h)
    \/ \E h \in Handlers : HPoll(h)
    \/ \E h \in Handlers : HDelay(h)
    \/ \E h \in Handlers : HWrite(h)
    \/ \E h \in Handlers : HFinally(h)
    \/ \E h \in Handlers, line \in TrafficLines : MSendUp(h, line)

\* one device of a group that was up fails
HFaultReady(h) == GroupReady /\ HFault(h)

\* either simulator, started with its ports open and never stopped, on
\* hardware of which one device may fail while it runs
IOFaultInit ==
    \/ /\ GInit
       /\ MAbsent
       /\ limits = [start |-> MainStarts, stop |-> 0, add |-> 0, send |-> FaultMaxSends]
    \/ /\ GIdle
       /\ MInit
       /\ ports_arg = NumSecondary
       /\ mlimits = [stop |-> 0, send |-> FaultMaxSends]

IOFaultNext ==
    \/ StartOk
    \/ \E line \in Lines : Send(line)
    \/ \E t \in DOMAIN threads : ThreadStep(t)
    \/ \E t \in DOMAIN threads : IOFault(t)
    \/ MainValidate
    \/ StartRunning
    \/ StartThread
    \/ \E h \in Handlers : HOpenOk(h)
    \/ \E h \in Handlers : HCheck(h)
    \/ \E h \in Handlers : HPoll(h)
    \/ \E h \in Handlers : HDelay(h)
    \/ \E h \in Handlers : HWrite(h)
    \/ \E h \in Handlers : HFinally(h)
    \/ \E h \in Handlers : HFaultReady(h)
    \/ \E h \in Handlers, line \in TrafficLines : MSendUp(h, line)

\* lines sent over a noisy link: those of TrafficLines and a line that is
\* not UTF-8
NoiseLines == TrafficLines \cup {"~\n"}

\* either simulator, started with its ports open and never stopped, on
\* hardware that works, with a peer whose lines may be garbled
NoiseInit ==
    \/ /\ GInit
       /\ MAbsent
       /\ limits = [start |-> MainStarts, stop |-> 0, add |-> 0, send |-> NoiseMaxSends]
    \/ /\ GIdle
       /\ MInit
       /\ ports_arg = NumSecondary
       /\ mlimits = [stop |-> 0, send |-> TrafficMaxSends]

NoiseNext ==
    \/ StartOk
    \/ \E line \in Lines : Send(line)
    \/ \E t \in DOMAIN threads : ThreadStep(t)
    \/ MainValidate
    \/ StartRunning
    \/ StartThread
    \/ \E h \in Handlers : HOpenOk(h)
    \/ \E h \in Handlers : HCheck(h)
    \/ \E h \in Handlers : HPoll(h)
    \/ \E h \in Handlers : HDelay(h)
    \/ \E h \in Handlers : HWrite(h)
    \/ \E h \in Handlers : HFinally(h)
    \/ \E h \in Handlers, line \in NoiseLines : MSendReady(h, line)

\* the response of handler h to a received line, for every line: what
\* lines 48-66 / 100-116 compute between readline() and ser.write()
Dispatch(h, line) ==
    /\ Decodable(line)
    /\ probe' = <<h, Strip(line), Response(h, Strip(line))>>
    /\ UNCHANGED <<serial_port, handles, running, device_state, command_responses,
                   threads, ctl_pc, last_op, rx, tx, calls, rd, fault, limits, mvars>>

DispatchInit ==
    /\ GIdle
    /\ MIdle

DispatchNext ==
    \E h \in 0..NumSecondary, line \in DispatchLines : Dispatch(h, line)

\* a caller that calls start() and stop() in any order, while the peer sends
\* a known command
LifeLines == {"ATZ\r\n"}

LifeInit ==
    /\ GInit
    /\ MIdle
    /\ limits = [start |-> MaxStarts, stop |-> MaxStops,
                 add |-> 0, send |-> LifeMaxSends]

LifeNext ==
    \/ StartFails
    \/ StartOk
    \/ StopFlags
    \/ StopClose
    \/ \E line \in LifeLines : Send(line)
    \/ \E t \in DOMAIN threads : ThreadStep(t)

\* a caller that only fills and queries the command table
TableInit ==
    /\ GInit
    /\ MIdle
    /\ limits = [start |-> 0, stop |-> 0, add |-> TableMaxAdds, send |-> 0]

TableNext ==
    \/ \E k \in AddKeys, v \in AddValues : add_command(k, v)
    \/ \E c \in Probes : Query(c)

\* the group started by main() with every port open, and an orchestrator
\* that sends each slow command to the port it is meant for
IndepTraffic == {<<0, "MAIN_SELF_TEST\r\n">>, <<2, "PORT2_TEST\r\n">>}

IndepInit ==
    /\ GIdle
    /\ MInit
    /\ ports_arg = NumSecondary
    /\ mlimits = [stop |-> 0, send |-> IndepMaxSends]

IndepNext ==
    \/ MainValidate
    \/ StartRunning
    \/ StartThread
    \/ \E h \in Handlers : HOpenOk(h)
    \/ \E h \in Handlers : HCheck(h)
    \/ \E h \in Handlers : HPoll(h)
    \/ \E h \in Handlers : HDelay(h)
    \/ \E h \in Handlers : HWrite(h)
    \/ \E m \in IndepTraffic : MSendReady(m[1], m[2])

IndepSpec == IndepInit /\ [][IndepNext]_vars

\* either simulator as its main() drives it: started once, stopped once by
\* the interrupt, while the orchestrator sends a known command to the
\* DummyUUT or the slow command of the main UUT to the group, at any time
\* the port is open
StopTraffic == {<<0, "MAIN_SELF_TEST\r\n">>}

StopInit ==
    \/ /\ GInit
       /\ MAbsent
       /\ limits = [start |-> MainStarts, stop |-> MainStops,
                    add |-> 0, send |-> StopMaxSends]
    \/ /\ GIdle
       /\ MInit
       /\ ports_arg = NumSecondary
       /\ mlimits = [stop |-> InterruptStops, send |-> StopMaxSends]

StopNext ==
    \/ StartOk
    \/ StopFlags
    \/ StopClose
    \/ \E line \in LifeLines : Send(line)
    \/ \E t \in DOMAIN threads : ThreadStep(t)
    \/ MainValidate
    \/ StartRunning
    \/ StartThread
    \/ \E h \in Handlers : HOpenOk(h)
    \/ \E h \in Handlers : HCheck(h)
    \/ \E h \in Handlers : HPoll(h)
    \/ \E h \in Handlers : HDelay(h)
    \/ \E h \in Handlers : HWrite(h)
    \/ \E h \in Handlers : HFinally(h)
    \/ MStopFlag
    \/ MStopIter
    \/ MStopJoin
    \/ \E m \in StopTraffic : MSend(m[1], m[2])

StopSpec == StopInit /\ [][StopNext]_vars

\* the generic simulator, with the group untouched
Spec == MainInit /\ [][MainNext]_vars
LifeSpec == LifeInit /\ [][LifeNext]_vars
TableSpec == TableInit /\ [][TableNext]_vars

\* the group, with the generic simulator untouched
GroupSpec == GroupInit /\ [][GroupNext]_vars
TrafficSpec == TrafficInit /\ [][TrafficNext]_vars
DispatchSpec == DispatchInit /\ [][DispatchNext]_vars
OpenFailSpec == OpenFailInit /\ [][OpenFailNext]_vars

\* either simulator
IOFaultSpec == IOFaultInit /\ [][IOFaultNext]_vars
NoiseSpec == NoiseInit /\ [][NoiseNext]_vars


(***************************************************************************)
(* Claims.                                                                 *)
(***************************************************************************)
\* s begins with p, said without StartsWith
HasPrefix(s, p) == \E n \in 0..Len(s) : n = Len(p) /\ s = p \o SubSeq(s, n + 1, Len(s))

\* s ends with CR LF, said without EndsWith
CrlfTerminated(s) ==
    Len(s) >= 2 /\ SubSeq(s, Len(s) - 1, Len(s) - 1) = CR /\ SubSeq(s, Len(s), Len(s)) = LF

\* the vocabulary of the main UUT as the specification tabulates it
MainVocabulary ==
    ("MAIN_POWER_ON" :> "MAIN_POWER:ON") @@ ("MAIN_INIT" :> "MAIN_INIT:OK") @@
    ("MAIN_TEST_STATUS" :> "MAIN_STATUS:READY") @@
    ("MAIN_SELF_TEST" :> "MAIN_SELF_TEST:PASS") @@
    ("MAIN_SHUTDOWN" :> "MAIN_SHUTDOWN:OK")

\* C1: whatever trimmed command c the main handler receives, its response
\* is the tabulated one followed by CR LF when c is one of the five main
\* commands, MAIN_UNKNOWN_CMD:<c> CR LF when c is no such command but begins
\* with MAIN_, and MAIN_ERROR:INVALID_COMMAND CR LF for every other c; every
\* response ends with CR LF.
C1_MainDispatch ==
    (probe # <<>> /\ probe[1] = 0) =>
        LET c == probe[2]
            r == probe[3]
        IN  /\ c \in DOMAIN MainVocabulary => r = MainVocabulary[c] \o CRLF
            /\ (c \notin DOMAIN MainVocabulary /\ HasPrefix(c, "MAIN_"))
                    => r = "MAIN_UNKNOWN_CMD:" \o c \o CRLF
            /\ (c \notin DOMAIN MainVocabulary /\ ~HasPrefix(c, "MAIN_"))
                    => r = "MAIN_ERROR:INVALID_COMMAND" \o CRLF
            /\ CrlfTerminated(r)

\* the three kinds of main command have all been answered: here an
\* unknown command with the role prefix, echoed verbatim
C1_Witness == probe = <<0, "MAIN_FOO", "MAIN_UNKNOWN_CMD:MAIN_FOO\r\n">>

\* the vocabulary of a secondary port, as suffixes of PORT{N}
PortVocabulary ==
    ("_ENABLE" :> ":ENABLED") @@ ("_TEST" :> ":TEST_OK") @@
    ("_DATA_CHECK" :> ":DATA_VALID") @@ ("_DISABLE" :> ":DISABLED")

PortTag(n) == "PORT" \o SubSeq("123456789", n, n)

\* C2: the handler of the N-th secondary port answers PORT{N}_ENABLE,
\* PORT{N}_TEST, PORT{N}_DATA_CHECK and PORT{N}_DISABLE with their PORT{N}:
\* responses, any other command beginning with PORT{N}_ with
\* PORT{N}_UNKNOWN_CMD:<command>, and every other command with
\* PORT{N}_ERROR:INVALID_COMMAND: among them the commands of another index
\* and the MAIN_ commands.
C2_PortDispatch ==
    (probe # <<>> /\ probe[1] >= 1) =>
        LET N == probe[1]
            c == probe[2]
            r == probe[3]
            known == \E w \in DOMAIN PortVocabulary : c = PortTag(N) \o w
        IN  /\ \A w \in DOMAIN PortVocabulary :
                    c = PortTag(N) \o w => r = PortTag(N) \o PortVocabulary[w] \o CRLF
            /\ (~known /\ HasPrefix(c, PortTag(N) \o "_"))
                    => r = PortTag(N) \o "_UNKNOWN_CMD:" \o c \o CRLF
            /\ (~known /\ ~HasPrefix(c, PortTag(N) \o "_"))
                    => r = PortTag(N) \o "_ERROR:INVALID_COMMAND" \o CRLF
            /\ \A M \in (1..NumSecondary) \ {N}, w \in DOMAIN PortVocabulary :
                    c = PortTag(M) \o w => r = PortTag(N) \o "_ERROR:INVALID_COMMAND" \o CRLF
            /\ HasPrefix(c, "MAIN_") => r = PortTag(N) \o "_ERROR:INVALID_COMMAND" \o CRLF

\* port 2 was sent a command of port 1 and called it invalid
C2_Witness == probe = <<2, "PORT1_ENABLE", "PORT2_ERROR:INVALID_COMMAND\r\n">>

\* the command without its CR and LF characters
StripTerminators(c) ==
    LET keep == {i \in 1..Len(c) : SubSeq(c, i, i) \notin {CR, LF}}
        F[i \in 0..Len(c)] ==
            IF i = 0 THEN ""
            ELSE IF i \in keep THEN F[i - 1] \o SubSeq(c, i, i) ELSE F[i - 1]
    IN  F[Len(c)]

\* the three keys of the lookup policy, in their order of precedence
Candidates(c) == <<c, c \o CRLF, StripTerminators(c)>>

\* the candidates of every command of Probes
ProbeCandidates == [c \in Probes |-> Candidates(c)]

\* the response of the first candidate that is a stored key, if any
FirstMatch(table, cand) ==
    LET hits == {i \in 1..3 : cand[i] \in DOMAIN table} IN
    IF hits = {} THEN None
    ELSE Some(table[cand[CHOOSE i \in hits : \A j \in hits : i <= j]])

\* the lookup policy on one table, for every command of Probes
PolicyOn(table) ==
    \A c \in Probes :
        LET cand == ProbeCandidates[c]
            found == get_response(table, c)
        IN  /\ found = FirstMatch(table, cand)
            /\ found = None <=> \A i \in 1..3 : cand[i] \notin DOMAIN table

\* C3: on the initial table and on every table add_command makes, a lookup
\* returns the response of the first of (1) the command as received, (2) the
\* command followed by CR LF, (3) the command without its CR and LF
\* characters that is a stored key, and none exactly when none of the three
\* is; the processing loop then writes "ERROR: Unknown command" rather than
\* nothing.
C3_LookupPrecedence ==
    /\ [][last_op.op = "init" => PolicyOn(command_responses)]_vars
    /\ [][command_responses' # command_responses => PolicyOn(command_responses')]_vars
    /\ [][\A t \in DOMAIN threads :
            (/\ threads[t].pc = "write"
             /\ threads'[t].pc # "write"
             /\ threads[t].response = None
             /\ PortOpen)
                => tx' = Append(tx, "ERROR: Unknown command\r\n")]_vars

\* the loop has answered a command that no rule matched with the fallback,
\* on a table where an added key makes the first two rules disagree
C3_Witness ==
    /\ \E i \in DOMAIN tx : tx[i] = "ERROR: Unknown command\r\n"
    /\ "ATZ" \in DOMAIN command_responses
    /\ command_responses["ATZ"] # command_responses["ATZ\r\n"]

\* C4 as claimed: on every table that add_command calls can build, a
\* command, the command followed by CR LF and the command stripped of CR and
\* LF all look up the same response whenever the stripped command is a
\* stored key.
C4_AsClaimed ==
    \A c \in Probes :
        StripTerminators(c) \in DOMAIN command_responses =>
            /\ get_response(command_responses, c)
                    = get_response(command_responses, StripTerminators(c))
            /\ get_response(command_responses, c \o CRLF)
                    = get_response(command_responses, StripTerminators(c))

\* the exact keys that rules 1 and 2 try before the stripped command, for
\* a command and for the command followed by CR LF
ExactKeys(c) == {c, c \o CRLF, c \o CRLF \o CRLF}

\* C4, amended: a command, the command followed by CR LF and the command
\* stripped of CR and LF all look up the response stored for the stripped
\* command, whenever the stripped command is a stored key and no exact key
\* (the command, or the command followed by one or two CR LF) is stored
\* with another response.
C4_CrlfInsensitive ==
    \A c \in Probes :
        LET T == command_responses
            k == StripTerminators(c)
        IN  (k \in DOMAIN T /\ \A e \in ExactKeys(c) \cap DOMAIN T : T[e] = T[k]) =>
                /\ get_response(T, c) = Some(T[k])
                /\ get_response(T, c \o CRLF) = Some(T[k])
                /\ get_response(T, k) = Some(T[k])

\* a key was added without terminator and a caller looked it up with one:
\* the third rule found it
C4_Witness ==
    /\ "FOO" \in DOMAIN command_responses
    /\ "FOO\r\n" \notin DOMAIN command_responses
    /\ probe = <<"FOO\r\n", Some(command_responses["FOO"])>>

\* C5: add_command overwrites the response of its key, and a lookup of the
\* key right after it returns the new response; a lookup that the
\* processing loop runs while add_command is called returns what a lookup
\* returns on the table as it was at some moment of that lookup (the old or
\* the new response, nothing else).
C5_InsertThenLookup ==
    /\ last_op.op = "add_command" =>
            /\ command_responses[last_op.command] = last_op.response
            /\ get_response(command_responses, last_op.command) = Some(last_op.response)
    /\ \A t \in DOMAIN threads :
            threads[t].pc \in {"delay", "write"} => threads[t].response \in threads[t].seen

\* C6: every response the generic simulator writes ends with CR LF: the
\* stored responses, the fallback, and the responses added by add_command.
C6_ResponsesCrlfTerminated == \A i \in DOMAIN tx : CrlfTerminated(tx[i])

\* C7: in every processing loop a received line whose trimmed command is
\* empty is skipped: nothing is written for it.  (The loop of DummyUUT has
\* the test, line 100; the handlers of MultiPortDummyUUT answer.)
C7_EmptySkipped == \A i \in DOMAIN mp_log : mp_log[i].command # ""

\* C8: once stop() has returned, the simulator is stopped (running false,
\* device state OFFLINE) and its port is closed, wherever its processing
\* loop was when stop() ran.
C8_StopStops ==
    (last_op.op = "stop" /\ ctl_pc = "idle") =>
        /\ ~running
        /\ device_state = "OFFLINE"
        /\ serial_port # 0 => ~handles[serial_port]
        /\ Len(threads) > 0 => serial_port # 0

\* stop() has returned on a started simulator whose loop had read a
\* command and was about to write the response
C8_Witness ==
    /\ last_op.op = "stop"
    /\ ctl_pc = "idle"
    /\ \E t \in DOMAIN threads : threads[t].pc = "write"

\* C9: a second stop() right after a first one produces no error.  (On the
\* group the second call raises when a handler registers its port while
\* stop() walks serial_connections.)
C9_SecondStopNoError == mcalls.stop = 2 => main_pc # "raised"

\* C10: with a --ports list that has not exactly three entries, no
\* MultiPortDummyUUT is constructed, no thread is started, no port is
\* opened, and the process ends with a non-zero exit code.
C10_BadConfigFailsEarly ==
    ports_arg # 3 =>
        /\ ~constructed
        /\ mp_threads = <<>>
        /\ \A h \in Handlers : ser[h] = "none" /\ h_pc[h] = "unstarted"
        /\ main_pc \in {"main", "exit1"}
        /\ main_pc = "exit1" => exit_code # <<>> /\ exit_code[1] # 0
        /\ main_pc = "main" => exit_code = <<>>

\* main() was given two secondary ports and has exited with code 1
C10_Witness == ports_arg = 2 /\ main_pc = "exit1" /\ exit_code = <<1>>

\* the non-empty commands among those a loop read
NonEmpty(commands) == SelectSeq(commands, LAMBDA c : c # "")

\* the responses handler h wrote, in order
WrittenBy(h) == SelectSeq(mp_log, LAMBDA e : e.port = h)

\* C11: on every port the responses written and the non-empty commands read
\* alternate: there are as many responses as commands, or one less while
\* the last command is being answered, and the k-th response is the
\* response to the k-th non-empty command.  (A handler of the group answers
\* an empty line too, see C7, so it writes a response that belongs to no
\* non-empty command.)
C11_Alternation ==
    /\ LET commands == NonEmpty(rd) IN
           /\ Len(tx) <= Len(commands)
           /\ Len(commands) <= Len(tx) + 1
           /\ \A k \in 1..Len(tx) :
                  tx[k] = Reply(get_response(command_responses, commands[k]))
    /\ \A h \in Handlers :
           LET commands == NonEmpty(mp_read[h])
               written == WrittenBy(h)
           IN  /\ Len(written) <= Len(commands)
               /\ Len(commands) <= Len(written) + 1
               /\ \A k \in 1..Len(written) :
                      written[k].response = Response(h, commands[k])

\* C12: a group stop() never raises, whatever the handler threads do
\* meanwhile, and once stop() was called and every handler thread has ended
\* no port that was opened is left open.  (stop() raises when a handler
\* registers its port while the for loop of line 189 is under way.)
C12_GroupStopClean ==
    /\ main_pc # "raised"
    /\ (mcalls.stop > 0 /\ \A h \in Handlers : h_pc[h] \in {"unstarted", "done"})
            => \A h \in Handlers : ser[h] \in {"none", "closed"}

\* the open of handler h's port has failed
OpenFailed(h) == h_pc[h] \in {"finally", "done"} /\ ser[h] = "none"

\* C13: a handler whose port cannot be opened never enters its loop (it
\* reads and writes nothing) and registers no connection; the group's
\* running flag stays set; and every response a sibling writes is the one
\* its own dispatch gives.
C13_OpenFailureLocal ==
    /\ \A h \in Handlers :
           ser[h] = "none" =>
               /\ h_pc[h] \in {"unstarted", "open", "finally", "done"}
               /\ mp_read[h] = <<>>
               /\ WrittenBy(h) = <<>>
               /\ ~InConnections(h)
    /\ main_pc \in {"spawn", "wait"} => mp_running
    /\ \A i \in DOMAIN mp_log :
           /\ ser[mp_log[i].port] # "none"
           /\ mp_log[i].response = Response(mp_log[i].port, mp_log[i].command)

\* the main port and the ports 1 and 3 could not be opened, their handlers
\* have ended, and port 2 has answered its test command
C13_Witness ==
    /\ \A h \in {0, 1, 3} : OpenFailed(h) /\ h_pc[h] = "done"
    /\ mp_running
    /\ \E i \in DOMAIN mp_log :
           mp_log[i] = [port |-> 2, command |-> "PORT2_TEST", response |-> "PORT2:TEST_OK\r\n"]

\* the states of a loop that is still processing
InLoop == {"poll", "read", "lookup", "delay", "write"}

\* C14, for the handlers of the group: a handler whose port has failed
\* reads and writes nothing more, a handler that has ended has closed the
\* port it had opened, and a handler whose port works stays in its loop.
C14_GroupFaultFatal ==
    /\ \A h \in Handlers : h_pc[h] = "done" /\ ser[h] # "none" => ser[h] = "closed"
    /\ \A h \in Handlers :
           mp_running /\ ser[h] = "open" => h_pc[h] \in {"check", "poll", "delay", "write"}
    /\ \A h \in Handlers : ser[h] = "broken" => h_pc[h] # "done"

\* C14: a transport fault that is not a timeout ends the loop of the
\* simulator it happens in (the loop does not go on polling, and once it
\* has ended the port is closed), and only that loop.  (The loop of DummyUUT
\* logs the fault and goes on.)
C14_IOFaultFatal ==
    /\ fault => \A t \in DOMAIN threads : threads[t].pc \notin InLoop
    /\ C14_GroupFaultFatal

\* C15, for DummyUUT: with lines that are not UTF-8 among those received,
\* the started simulator stays running with its port open and its loop
\* alive, and every well-formed non-empty command it has read is answered
\* or being answered.
C15_GenericDecodeRecoverable ==
    /\ running => PortOpen /\ \A t \in DOMAIN threads : threads[t].pc # "done"
    /\ Len(NonEmpty(rd)) <= Len(tx) + 1

\* C15: a received line that is not UTF-8 ends neither the loop of DummyUUT
\* nor the loop of a handler of the group: the simulator keeps its port
\* open and stays in its loop.  (A handler of the group leaves its loop and
\* closes its port.)
C15_DecodeFaultRecoverable ==
    /\ C15_GenericDecodeRecoverable
    /\ \A h \in Handlers :
           h_pc[h] \notin {"unstarted", "open"} =>
               /\ ser[h] = "open"
               /\ h_pc[h] \in {"check", "poll", "delay", "write"}

\* C16: whatever start() and stop() calls were made on a DummyUUT, at most
\* one _process_commands thread is alive and at most one Serial object is
\* open.  (A second start() adds a thread and a Serial object to those the
\* first one made.)
C16_OneLoop ==
    /\ Cardinality({t \in DOMAIN threads : threads[t].pc # "done"}) <= 1
    /\ Cardinality({n \in DOMAIN handles : handles[n]}) <= 1

\* C17: a start() whose port cannot be opened returns False and does nothing
\* else: it starts no thread and leaves the running flag, the device state,
\* the Serial reference and the command table as they were; on a simulator
\* that was never started this means no thread, running False and a state
\* other than ONLINE.
C17_FailedStartDoesNothing ==
    [][(calls'.start = calls.start + 1 /\ last_op'.op = "start" /\ ~last_op'.ret)
          => /\ threads' = threads
             /\ running' = running
             /\ device_state' = device_state
             /\ command_responses' = command_responses
             /\ serial_port' = serial_port
             /\ handles' = handles
             /\ tx' = tx
             /\ (calls.start = 0 => /\ threads' = <<>>
                                    /\ ~running'
                                    /\ device_state' # "ONLINE")]_vars

C17_Witness ==
    /\ last_op = [op |-> "start", ret |-> FALSE]
    /\ calls.start = 1
    /\ threads = <<>>
    /\ ~running
    /\ device_state = "OFFLINE"
    /\ serial_port = 0

\* C18: in every state of a DummyUUT, self.serial_port is not None exactly
\* when the simulator is running or inside stop(); it is None before
\* start(), after a start() that failed and after stop() has returned.
\* (stop() closes the Serial object but keeps the reference.)
Lifecycle ==
    IF running THEN "Running"
    ELSE IF threads = <<>> THEN (IF calls.start = 0 THEN "Created" ELSE "Failed")
    ELSE IF ctl_pc = "stop_close" THEN "Stopping"
    ELSE "Stopped"

C18_HandleIffActive ==
    (serial_port # 0) <=> (Lifecycle \in {"Running", "Stopping"})

\* the handler is inside its loop
Looping(h) == h_pc[h] \in {"check", "poll", "delay", "write"}

\* C19: the handlers of a group do not wait for one another.  Whatever the
\* other handlers are doing, in particular while one of them is in the
\* simulated processing time of a slow command or polls an idle port, a
\* handler inside its loop can take its next step: with a line waiting on its
\* port it can read the command, and with a response chosen it can write it.
\* And every response written is the one the dispatch of the writing handler
\* gives for the command it read, whatever the other handlers received.
C19_Independent ==
    /\ \A h \in Handlers :
           /\ Looping(h) => ENABLED HandlerStep(h)
           /\ (h_pc[h] = "poll" /\ ser[h] = "open" /\ mp_rx[h] # "")
                  => ENABLED (HPoll(h) /\ mp_read'[h] # mp_read[h])
           /\ (h_pc[h] = "write" /\ ser[h] = "open")
                  => ENABLED (HWrite(h) /\ mp_log' # mp_log)
    /\ \A i \in DOMAIN mp_log :
           mp_log[i].response = Response(mp_log[i].port, mp_log[i].command)

\* the main UUT is in the processing time of MAIN_SELF_TEST while the
\* handler of port 2 has a command waiting on its port
C19_Witness ==
    /\ h_pc[0] = "delay"
    /\ h_cmd[0][1] = "MAIN_SELF_TEST"
    /\ h_pc[2] = "poll"
    /\ mp_rx[2] = "PORT2_TEST\r\n"

=============================================================================
